---- MODULE Spec2Model ----
(***************************************************************************)
(* State machine of the DropzoneArea component                             *)
(* (src/src/components/DropzoneArea.tsx): an uncontrolled dropzone that    *)
(* keeps the list of loaded files in this.state.fileObjects, hydrates it   *)
(* from props.initialFiles when mounted, and reports every change through  *)
(* the onChange / onDelete callback props.                                 *)
(*                                                                         *)
(* React's this.setState(update, callback) is asynchronous: the call       *)
(* enqueues the update, the updates are processed later in the order they  *)
(* were enqueued, and the callback runs right after its update has been    *)
(* applied.  The variable queue holds the enqueued updates; the action     *)
(* setState processes the oldest one.  An updater function is evaluated    *)
(* against the state at that moment, an object update carries the value    *)
(* its caller computed when it called setState.                            *)
(***************************************************************************)
EXTENDS Integers, Sequences, FiniteSets

\* ---- bounds of the model ----
MaxInit == 2     \* longest props.initialFiles
MaxAdd == 2      \* longest newFileObjects handed to addFiles
MaxEvents == 2   \* add / delete events raised by DropzoneAreaBase in one run

VARIABLES
    props,        \* this.props, fixed when the component is constructed
    fileObjects,  \* this.state.fileObjects
    lifecycle,    \* "constructed", "mounted", "unmounted"
    hydration,    \* position of loadInitialFiles, and the entry that made it fail
    queue,        \* setState updates enqueued and not yet applied, oldest first
    events,       \* history: the setState calls made so far, in order
    calls,        \* history: callback invocations and console output, in order
    last          \* history: the update applied most recently and the state it found

vars == <<props, fileObjects, lifecycle, hydration, queue, events, calls, last>>

\* ---- values ----

\* The JavaScript value undefined, where a FileObject is expected.
Undefined == [undefined |-> TRUE]

\* FileObject = { file, data } (built at line 122).
FileObject(file, data) == [file |-> file, data |-> data]

\* readFile(file): the loaded content of a file, as it resolves on success.
readFile(file) == 100 + file

\* createFileFromUrl(url): the File fetched from a URL string, on success.
createFileFromUrl(url) == 10 + url

\* Entry k of props.initialFiles: Files (handle v) and URL strings (url v)
\* alternate, each with its own handle.
InitialFile(k) == [isString |-> (k % 2 = 0), v |-> k]

\* The values of props.initialFiles: the lists of the first n entries.
InitialFilesValues == { [k \in 1..n |-> InitialFile(k)] : n \in 0..MaxInit }

\* Records DropzoneAreaBase hands to onAdd: the first n files of a drop.
DroppedFileObject(k) == FileObject(50 + k, 150 + k)

NewFileObjectsValues == { [k \in 1..n |-> DroppedFileObject(k)] : n \in 0..MaxAdd }

\* A record that is not in the list (a stale or foreign preview tile).
ForeignFileObject == FileObject(99, 199)

\* props.filesLimit: <<>> when the prop is omitted, <<n>> when it is n.
FilesLimitValues == { <<>>, <<-1>>, <<0>>, <<1>>, <<2>> }

\* props.clearOnUnmount: <<>> when omitted.
ClearOnUnmountValues == { <<>>, <<TRUE>>, <<FALSE>> }

\* ---- defaultProps and the props as the methods read them ----

defaultFilesLimit == 3

defaultClearOnUnmount == TRUE

filesLimit == IF props.filesLimit = <<>> THEN defaultFilesLimit ELSE props.filesLimit[1]

clearOnUnmount ==
    IF props.clearOnUnmount = <<>> THEN defaultClearOnUnmount ELSE props.clearOnUnmount[1]

initialFiles == props.initialFiles

\* ---- pure helpers ----

\* Array.prototype.filter((x, i) => i !== idx), idx 0-based.
RECURSIVE FilterOutIndex(_, _, _)
FilterOutIndex(s, idx, i) ==
    IF s = <<>> THEN <<>>
    ELSE IF i # idx THEN <<Head(s)>> \o FilterOutIndex(Tail(s), idx, i + 1)
         ELSE FilterOutIndex(Tail(s), idx, i + 1)

\* Mutant of remainingFileObjs: the index taken as 1-based.
remainingFileObjs_OneBased(fileObjs, removedFileObjIdx) ==
    FilterOutIndex(fileObjs, removedFileObjIdx, 1)

\* Mutant of remainingFileObjs: an index past the end is taken for the last one.
remainingFileObjs_ClampsIndex(fileObjs, removedFileObjIdx) ==
    FilterOutIndex(fileObjs,
                   IF removedFileObjIdx >= Len(fileObjs) THEN Len(fileObjs) - 1
                   ELSE removedFileObjIdx,
                   0)

\* deleteFile lines 168-170.
remainingFileObjs(fileObjs, removedFileObjIdx) ==
    FilterOutIndex(fileObjs, removedFileObjIdx, 0)

\* Mutant of mapInitialFile: the URL string is not fetched, the entry itself is
\* taken for the File.
mapInitialFile_NoFetch(initialFile) ==
    FileObject(initialFile.v, readFile(initialFile.v))

\* The FileObject the mapper of one initialFiles entry resolves to (lines 113-124).
mapInitialFile(initialFile) ==
    LET file == IF initialFile.isString THEN createFileFromUrl(initialFile.v)
                ELSE initialFile.v
    IN  FileObject(file, readFile(file))

\* Mutant of loadInitialFilesUpdater: the hydrated records replace the state.
loadInitialFilesUpdater_Overwrites(prevState, fileObjs) == fileObjs

\* The updater of loadInitialFiles (lines 128-130).
loadInitialFilesUpdater(prevState, fileObjs) == prevState \o fileObjs

\* Mutant of addFilesUpdater: the appended list is cut to the limit.
addFilesUpdater_Truncating(prevState, newFileObjects, limit) ==
    IF limit <= 1
    THEN << IF newFileObjects = <<>> THEN Undefined ELSE newFileObjects[1] >>
    ELSE LET all == prevState \o newFileObjects
         IN  [i \in 1..(IF Len(all) < limit THEN Len(all) ELSE limit) |-> all[i]]

\* Mutant of addFilesUpdater: single-file mode only for a limit of exactly 1.
addFilesUpdater_ExactlyOne(prevState, newFileObjects, limit) ==
    IF limit = 1
    THEN << IF newFileObjects = <<>> THEN Undefined ELSE newFileObjects[1] >>
    ELSE prevState \o newFileObjects

\* The updater of addFiles (lines 143-155), with the filesLimit read at line 140.
addFilesUpdater(prevState, newFileObjects, limit) ==
    IF limit <= 1
    THEN << IF newFileObjects = <<>> THEN Undefined ELSE newFileObjects[1] >>
    ELSE prevState \o newFileObjects

\* The new state an enqueued update produces from prevState.
applyUpdate(u, prevState) ==
    CASE u.op = "loadInitialFiles" -> loadInitialFilesUpdater(prevState, u.payload)
      [] u.op = "addFiles" -> addFilesUpdater(prevState, u.payload, u.filesLimit)
      [] OTHER -> u.payload

\* notifyFileChange (lines 98-105), run as the callback of update ev with the
\* state fileObjs: reading .file of undefined throws a TypeError.
notifyFileChange(fileObjs, ev) ==
    IF ~props.onChange THEN <<>>
    ELSE IF \E i \in DOMAIN fileObjs : fileObjs[i] = Undefined
         THEN << [cb |-> "TypeError", arg |-> <<>>, ev |-> ev] >>
         ELSE << [cb |-> "onChange", arg |-> [i \in DOMAIN fileObjs |-> fileObjs[i].file],
                 ev |-> ev] >>

UserEvents == { e \in DOMAIN events : events[e].op \in {"addFiles", "deleteFile"} }

\* this.setState(update, this.notifyFileChange)
enqueue(u) ==
    /\ events' = Append(events, u)
    /\ queue' = Append(queue, Len(events) + 1)

\* ---- initial state: the component as constructed (lines 77-79) ----

Init ==
    /\ props \in [ initialFiles : InitialFilesValues,
                   filesLimit : FilesLimitValues,
                   clearOnUnmount : ClearOnUnmountValues,
                   onChange : BOOLEAN,
                   onDelete : BOOLEAN ]
    /\ fileObjects = <<>>
    /\ lifecycle = "constructed"
    /\ hydration = [at |-> "idle", rejected |-> 0]
    /\ queue = <<>>
    /\ events = <<>>
    /\ calls = <<>>
    /\ last = [ev |-> 0, prevState |-> <<>>]

\* ---- actions ----

\* componentDidMount (lines 81-83) and loadInitialFiles up to its await
\* (lines 107-125): the mappers of all entries are started and joined.
componentDidMount ==
    /\ lifecycle = "constructed"
    /\ lifecycle' = "mounted"
    /\ hydration' = [at |-> "awaiting", rejected |-> 0]
    /\ UNCHANGED <<props, fileObjects, queue, events, calls, last>>

\* Promise.all fulfilled, every mapper having resolved createFileFromUrl (for a
\* string) and readFile: loadInitialFiles resumes and calls setState (lines 127-132).
loadInitialFilesCommit ==
    /\ hydration.at = "awaiting"
    /\ hydration' = [at |-> "committed", rejected |-> 0]
    /\ enqueue([op |-> "loadInitialFiles",
                payload |-> [k \in DOMAIN initialFiles |-> mapInitialFile(initialFiles[k])]])
    /\ UNCHANGED <<props, fileObjects, lifecycle, calls, last>>

\* Mutant of loadInitialFilesCatch: the entries before the failed one are
\* committed all the same.
loadInitialFilesCatch_PartialCommit(k) ==
    /\ hydration.at = "awaiting"
    /\ k \in DOMAIN initialFiles
    /\ hydration' = [at |-> "caught", rejected |-> k]
    /\ calls' = Append(calls, [cb |-> "console.log", arg |-> <<>>, ev |-> 0])
    /\ enqueue([op |-> "loadInitialFiles",
                payload |-> [j \in 1..(k - 1) |-> mapInitialFile(initialFiles[j])]])
    /\ UNCHANGED <<props, fileObjects, lifecycle, last>>

\* Promise.all rejected because createFileFromUrl or readFile failed for entry k,
\* whatever the other mappers do: the catch block logs the error (lines 133-136).
loadInitialFilesCatch(k) ==
    /\ hydration.at = "awaiting"
    /\ k \in DOMAIN initialFiles
    /\ hydration' = [at |-> "caught", rejected |-> k]
    /\ calls' = Append(calls, [cb |-> "console.log", arg |-> <<>>, ev |-> 0])
    /\ UNCHANGED <<props, fileObjects, lifecycle, queue, events, last>>

\* DropzoneAreaBase raises onAdd / onDelete from the list it was rendered with
\* (line 193), a list of FileObjects: with an undefined entry in it there are
\* no previews to raise events from.
DropzoneAreaBaseRendered == \A i \in DOMAIN fileObjects : fileObjects[i] # Undefined

\* addFiles (lines 139-156), raised by DropzoneAreaBase's onAdd.
addFiles(newFileObjects) ==
    /\ lifecycle = "mounted"
    /\ DropzoneAreaBaseRendered
    /\ Cardinality(UserEvents) < MaxEvents
    /\ enqueue([op |-> "addFiles", payload |-> newFileObjects, filesLimit |-> filesLimit])
    /\ UNCHANGED <<props, fileObjects, lifecycle, hydration, calls, last>>

\* Mutant of deleteFile: onDelete is called only when the index is in the list.
deleteFile_NotifiesInRangeOnly(removedFileObj, removedFileObjIdx) ==
    /\ lifecycle = "mounted"
    /\ DropzoneAreaBaseRendered
    /\ Cardinality(UserEvents) < MaxEvents
    /\ calls' = IF props.onDelete /\ removedFileObjIdx < Len(fileObjects)
                THEN Append(calls, [cb |-> "onDelete",
                                    arg |-> <<removedFileObj.file>>,
                                    ev |-> Len(events) + 1])
                ELSE calls
    /\ enqueue([op |-> "deleteFile",
                payload |-> remainingFileObjs(fileObjects, removedFileObjIdx),
                removedFileObj |-> removedFileObj,
                removedFileObjIdx |-> removedFileObjIdx,
                read |-> fileObjects])
    /\ UNCHANGED <<props, fileObjects, lifecycle, hydration, last>>

\* deleteFile (lines 158-184), raised by DropzoneAreaBase's onDelete: it reads
\* this.state, calls onDelete with the file of the record it was handed, and
\* replaces the state by the list it computed.
deleteFile(removedFileObj, removedFileObjIdx) ==
    /\ lifecycle = "mounted"
    /\ DropzoneAreaBaseRendered
    /\ Cardinality(UserEvents) < MaxEvents
    /\ calls' = IF props.onDelete
                THEN Append(calls, [cb |-> "onDelete",
                                    arg |-> <<removedFileObj.file>>,
                                    ev |-> Len(events) + 1])
                ELSE calls
    /\ enqueue([op |-> "deleteFile",
                payload |-> remainingFileObjs(fileObjects, removedFileObjIdx),
                removedFileObj |-> removedFileObj,
                removedFileObjIdx |-> removedFileObjIdx,
                read |-> fileObjects])
    /\ UNCHANGED <<props, fileObjects, lifecycle, hydration, last>>

\* Mutant of componentWillUnmount: the change is notified but the list is kept.
componentWillUnmount_KeepsList ==
    /\ lifecycle = "mounted"
    /\ lifecycle' = "unmounted"
    /\ IF clearOnUnmount
       THEN enqueue([op |-> "componentWillUnmount", payload |-> fileObjects])
       ELSE UNCHANGED <<queue, events>>
    /\ UNCHANGED <<props, fileObjects, hydration, calls, last>>

\* Mutant of componentWillUnmount: the list is cleared whatever clearOnUnmount is.
componentWillUnmount_AlwaysClears ==
    /\ lifecycle = "mounted"
    /\ lifecycle' = "unmounted"
    /\ enqueue([op |-> "componentWillUnmount", payload |-> <<>>])
    /\ UNCHANGED <<props, fileObjects, hydration, calls, last>>

\* componentWillUnmount (lines 85-96).
componentWillUnmount ==
    /\ lifecycle = "mounted"
    /\ lifecycle' = "unmounted"
    /\ IF clearOnUnmount
       THEN enqueue([op |-> "componentWillUnmount", payload |-> <<>>])
       ELSE UNCHANGED <<queue, events>>
    /\ UNCHANGED <<props, fileObjects, hydration, calls, last>>

\* React applies the oldest enqueued update and then runs its callback,
\* notifyFileChange, which reads the state just written.
setState ==
    /\ queue # <<>>
    /\ LET ev == Head(queue)
           next == applyUpdate(events[ev], fileObjects)
       IN  /\ fileObjects' = next
           /\ calls' = calls \o notifyFileChange(next, ev)
           /\ last' = [ev |-> ev, prevState |-> fileObjects]
    /\ queue' = Tail(queue)
    /\ UNCHANGED <<props, lifecycle, hydration, events>>

\* What DropzoneAreaBase passes to onDelete (a FileObject and an index): a tile
\* of the rendered list with its index, or a record that is not in the list
\* with the index past its end.
DeleteInputs ==
    { <<fileObjects[i + 1], i>> :
        i \in { j \in 0..(Len(fileObjects) - 1) : fileObjects[j + 1] # Undefined } }
      \cup { <<ForeignFileObject, Len(fileObjects)>> }

Next ==
    \/ componentDidMount
    \/ loadInitialFilesCommit
    \/ \E k \in 1..MaxInit : loadInitialFilesCatch(k)
    \/ \E newFileObjects \in NewFileObjectsValues : addFiles(newFileObjects)
    \/ \E in \in DeleteInputs : deleteFile(in[1], in[2])
    \/ componentWillUnmount
    \/ setState

Spec == Init /\ [][Next]_vars

\* ---- vocabulary of the properties ----

\* fileObjects.map((fileObject) => fileObject.file) of a list of FileObjects.
Handles(fileObjs) == [i \in DOMAIN fileObjs |-> fileObjs[i].file]

\* The invocations of callback cb made so far, oldest first.
CallsTo(cb) == SelectSeq(calls, LAMBDA c : c.cb = cb)

\* The invocations of callback cb made on behalf of setState call ev.
CallsFor(cb, ev) == SelectSeq(calls, LAMBDA c : c.cb = cb /\ c.ev = ev)

\* The update applied most recently came from op.
LastApplied(op) == last.ev # 0 /\ events[last.ev].op = op

\* The list s without its element at 0-based index idx.
WithoutIndex(s, idx) ==
    [j \in 1..(Len(s) - 1) |-> IF j <= idx THEN s[j] ELSE s[j + 1]]

\* The record entry k of initialFiles must become: the File itself, or the File
\* fetched from the URL, paired with the content read from that File.
ExpectedRecord(k) ==
    LET entry == props.initialFiles[k]
        handle == IF entry.isString THEN createFileFromUrl(entry.v) ELSE entry.v
    IN  [file |-> handle, data |-> readFile(handle)]

\* ---- C1 ----
\* C1: when hydration commits with all N entries loaded and no add / delete
\* event came before it, the state holds exactly N records, record k pairing
\* the k-th input's file handle with its loaded data, in input order, and
\* onChange (when supplied) has been called exactly once, with those N handles.
C1_HydrationCommitsAllInOrder ==
    (last.ev = 1 /\ events[1].op = "loadInitialFiles") =>
        /\ fileObjects = [k \in DOMAIN props.initialFiles |-> ExpectedRecord(k)]
        /\ props.onChange =>
             CallsTo("onChange") =
               << [cb |-> "onChange",
                   arg |-> [k \in DOMAIN props.initialFiles |-> ExpectedRecord(k).file],
                   ev |-> 1] >>
        /\ ~props.onChange => CallsTo("onChange") = <<>>

C1_Witness ==
    /\ last.ev = 1
    /\ events[1].op = "loadInitialFiles"
    /\ Len(props.initialFiles) >= 2
    /\ Len(fileObjects) = Len(props.initialFiles)
    /\ props.onChange
    /\ Len(CallsTo("onChange")) = 1

\* ---- C2 ----
\* C2: when an entry of the initial list fails, the hydration commits nothing:
\* it makes no setState call, so the state stays as the other operations leave
\* it; the error is logged once; and every onChange / onDelete call made is
\* one of an add, delete or unmount update, none of the hydration.
C2_FailedHydrationCommitsNothing ==
    hydration.at = "caught" =>
        /\ hydration.rejected \in DOMAIN props.initialFiles
        /\ \A e \in DOMAIN events : events[e].op # "loadInitialFiles"
        /\ Len(CallsTo("console.log")) = 1
        /\ \A i \in DOMAIN calls :
             calls[i].cb # "console.log" =>
               /\ calls[i].ev \in DOMAIN events
               /\ events[calls[i].ev].op \in {"addFiles", "deleteFile", "componentWillUnmount"}
        /\ events = <<>> => (fileObjects = <<>> /\ calls = CallsTo("console.log"))

C2_Witness ==
    /\ hydration.at = "caught"
    /\ hydration.rejected = 2
    /\ queue = <<>>
    /\ events = <<>>
    /\ fileObjects = <<>>
    /\ lifecycle = "unmounted"

\* ---- C3 ----
\* C3 (as claimed): with filesLimit = 1, after any addFiles call, whatever the
\* prior state and however many records the call carries, the state contains
\* exactly one record, and it is a record of that call.
C3_SingleModeKeepsOneAddedRecord ==
    (LastApplied("addFiles") /\ events[last.ev].filesLimit = 1) =>
        /\ Len(fileObjects) = 1
        /\ fileObjects[1] # Undefined
        /\ \E i \in DOMAIN events[last.ev].payload :
             fileObjects[1] = events[last.ev].payload[i]

\* ---- C4 ----
\* C4: with filesLimit > 1, addFiles(newRecords) applied to state L yields
\* exactly L followed by newRecords; nothing is truncated to filesLimit.
C4_MultiModeAppends ==
    (LastApplied("addFiles") /\ events[last.ev].filesLimit > 1) =>
        /\ Len(fileObjects) = Len(last.prevState) + Len(events[last.ev].payload)
        /\ \A i \in DOMAIN last.prevState : fileObjects[i] = last.prevState[i]
        /\ \A i \in DOMAIN events[last.ev].payload :
             fileObjects[Len(last.prevState) + i] = events[last.ev].payload[i]

C4_Witness ==
    /\ LastApplied("addFiles")
    /\ events[last.ev].filesLimit = 2
    /\ Len(last.prevState) >= 2
    /\ Len(events[last.ev].payload) >= 2
    /\ Len(fileObjects) > events[last.ev].filesLimit

\* ---- C5 ----
\* C5: deleteFile(record, i), called with 0 <= i < length and the record at
\* index i of the state it reads, produces that state without its entry i, the
\* other entries in their original order, and onDelete (when supplied) is
\* called once for it, with the file handle of the entry that was at index i.
C5_DeleteRemovesExactlyIndex ==
    LastApplied("deleteFile") =>
        LET u == events[last.ev]
        IN  (/\ u.removedFileObjIdx \in 0..(Len(u.read) - 1)
             /\ u.removedFileObj = u.read[u.removedFileObjIdx + 1]) =>
                /\ fileObjects = WithoutIndex(u.read, u.removedFileObjIdx)
                /\ props.onDelete =>
                     CallsFor("onDelete", last.ev) =
                       << [cb |-> "onDelete",
                           arg |-> << u.read[u.removedFileObjIdx + 1].file >>,
                           ev |-> last.ev] >>

C5_Witness ==
    /\ LastApplied("deleteFile")
    /\ Len(events[last.ev].read) >= 3
    /\ events[last.ev].removedFileObjIdx = 1
    /\ events[last.ev].read = last.prevState
    /\ Len(fileObjects) = Len(last.prevState) - 1
    /\ props.onDelete

C7_NonClearingUnmountIsSilent ==
    (lifecycle = "unmounted" /\ ~clearOnUnmount) =>
        /\ \A e \in DOMAIN events : events[e].op # "componentWillUnmount"
        /\ \A i \in DOMAIN calls :
             calls[i].ev \in DOMAIN events =>
               events[calls[i].ev].op # "componentWillUnmount"

C7_Witness ==
    /\ lifecycle = "unmounted"
    /\ props.clearOnUnmount = <<FALSE>>
    /\ queue = <<>>
    /\ Len(fileObjects) >= 2
    /\ props.onChange

\* ---- C8 ----
\* C8 (as claimed): with filesLimit 1 the record list never holds more than
\* one entry, in any reachable state.
C8_SingleModeLengthAtMostOne ==
    filesLimit = 1 => Len(fileObjects) <= 1

\* ---- C9 ----
\* C9 (as claimed): every applied update (hydration commit, addFiles,
\* deleteFile, clearing unmount) is followed by exactly one onChange call, whose
\* argument is the file handles of the record list as it stands after the
\* update, in list order.
C9_EveryUpdateNotifiesHandles ==
    (props.onChange /\ last.ev # 0) =>
        /\ Len(CallsFor("onChange", last.ev)) = 1
        /\ \A i \in DOMAIN fileObjects : fileObjects[i] # Undefined
        /\ CallsFor("onChange", last.ev)[1].arg = Handles(fileObjects)

\* ---- C10 ----
\* C10: with an onDelete prop, every deleteFile event has exactly one onDelete
\* call, made before the onChange call of that deletion; no onDelete call
\* belongs to anything but a deleteFile event.
C10_OnDeleteOncePerDeleteBeforeOnChange ==
    /\ \A i \in DOMAIN calls :
         calls[i].cb = "onDelete" =>
           /\ props.onDelete
           /\ calls[i].ev \in DOMAIN events
           /\ events[calls[i].ev].op = "deleteFile"
    /\ props.onDelete =>
         \A e \in DOMAIN events :
            events[e].op = "deleteFile" =>
              /\ Len(CallsFor("onDelete", e)) = 1
              /\ \A j \in DOMAIN calls :
                   (calls[j].cb = "onChange" /\ calls[j].ev = e) =>
                     \E i \in 1..(j - 1) : calls[i].cb = "onDelete" /\ calls[i].ev = e

C10_Witness ==
    /\ props.onDelete
    /\ props.onChange
    /\ Len(calls) >= 2
    /\ calls[Len(calls)].cb = "onChange"
    /\ calls[Len(calls)].ev \in DOMAIN events
    /\ events[calls[Len(calls)].ev].op = "deleteFile"
    /\ events[calls[Len(calls)].ev].removedFileObjIdx < Len(events[calls[Len(calls)].ev].read)
    /\ \E i \in 1..(Len(calls) - 1) :
         calls[i].cb = "onDelete" /\ calls[i].ev = calls[Len(calls)].ev

\* ---- C11 ----
\* C11 (as claimed): unmounting does not cancel the hydration: while it is in
\* flight after the unmount it can still commit, and once its update is applied
\* on the unmounted component the state is the state found followed by the
\* hydrated records, and onChange (when supplied) is called for it.
C11_HydrationSurvivesUnmount ==
    /\ (lifecycle = "unmounted" /\ hydration.at = "awaiting") =>
          ENABLED loadInitialFilesCommit
    /\ (lifecycle = "unmounted" /\ LastApplied("loadInitialFiles")) =>
          /\ fileObjects =
               last.prevState \o [k \in DOMAIN props.initialFiles |-> ExpectedRecord(k)]
          /\ props.onChange => Len(CallsFor("onChange", last.ev)) = 1

\* The empty-list notification of a clearing unmount followed by the
\* notification of the hydration that committed after it.
C11_EmptyNotificationNotLast ==
    /\ lifecycle = "unmounted"
    /\ clearOnUnmount
    /\ Len(calls) >= 2
    /\ calls[Len(calls) - 1].cb = "onChange"
    /\ calls[Len(calls) - 1].arg = <<>>
    /\ events[calls[Len(calls) - 1].ev].op = "componentWillUnmount"
    /\ calls[Len(calls)].cb = "onChange"
    /\ calls[Len(calls)].arg # <<>>
    /\ events[calls[Len(calls)].ev].op = "loadInitialFiles"

\* ---- C12 ----
\* The list that results from applying the first n setState calls one after
\* another, each to the list the one before it left.
RECURSIVE OneAfterAnother(_)
OneAfterAnother(n) ==
    IF n = 0 THEN <<>>
    ELSE LET before == OneAfterAnother(n - 1)
             u == events[n]
         IN  CASE u.op = "loadInitialFiles" -> before \o u.payload
               [] u.op = "addFiles" ->
                    IF u.filesLimit <= 1
                    THEN << IF u.payload = <<>> THEN Undefined ELSE u.payload[1] >>
                    ELSE before \o u.payload
               [] u.op = "deleteFile" ->
                    [j \in 1..(Len(before) - (IF u.removedFileObjIdx \in 0..(Len(before) - 1)
                                               THEN 1 ELSE 0)) |->
                        IF j <= u.removedFileObjIdx THEN before[j] ELSE before[j + 1]]
               [] OTHER -> <<>>

\* C12 (as claimed): no update is lost: once every update has been applied,
\* the record list is the result of applying the events one after another,
\* also when a deleteFile was issued while an earlier update was still queued.
C12_NoUpdateLost ==
    queue = <<>> => fileObjects = OneAfterAnother(Len(events))

\* ---- C13 ----
\* The records of the first n setState calls, when all of them are addFiles
\* calls: their payloads one after another.
RECURSIVE AddedBy(_)
AddedBy(n) == IF n = 0 THEN <<>> ELSE AddedBy(n - 1) \o events[n].payload

\* C13: the hydration commit appends to the state it finds: the new state is
\* that state followed by the N hydrated records in input order; when only
\* addFiles calls with a limit above 1 came before it, the state is all their
\* records, in their order, followed by the hydrated ones.
C13_HydrationAppendsToStateAtCommit ==
    LastApplied("loadInitialFiles") =>
        LET hydrated == [k \in DOMAIN props.initialFiles |-> ExpectedRecord(k)]
        IN  /\ fileObjects = last.prevState \o hydrated
            /\ (\A e \in 1..(last.ev - 1) :
                   events[e].op = "addFiles" /\ events[e].filesLimit > 1) =>
                 fileObjects = AddedBy(last.ev - 1) \o hydrated

C13_Witness ==
    /\ LastApplied("loadInitialFiles")
    /\ last.ev >= 2
    /\ \A e \in 1..(last.ev - 1) : events[e].op = "addFiles" /\ events[e].filesLimit > 1
    /\ Len(last.prevState) >= 2
    /\ Len(props.initialFiles) >= 2
    /\ Len(fileObjects) = Len(last.prevState) + Len(props.initialFiles)

\* ---- C14 ----
\* The records handed to setState by the hydration and by addFiles so far.
SuppliedRecords ==
    UNION { { events[e].payload[i] : i \in DOMAIN events[e].payload } :
              e \in { d \in DOMAIN events : events[d].op \in {"loadInitialFiles", "addFiles"} } }

\* C14 (as claimed): every element of the record list is a well-formed record
\* supplied by the hydration or by an addFiles call, never an undefined entry.
C14_EveryEntryIsARecord ==
    \A i \in DOMAIN fileObjects :
        fileObjects[i] # Undefined /\ fileObjects[i] \in SuppliedRecords

C16_SingleModeIffLimitAtMostOne ==
    LastApplied("addFiles") =>
        LET u == events[last.ev]
            effective == IF props.filesLimit = <<>> THEN 3 ELSE props.filesLimit[1]
        IN  /\ u.filesLimit = effective
            /\ effective <= 1 =>
                 /\ Len(fileObjects) = 1
                 /\ u.payload # <<>> => fileObjects = << u.payload[1] >>
            /\ effective > 1 => fileObjects = last.prevState \o u.payload

C16_Witness ==
    /\ LastApplied("addFiles")
    /\ props.filesLimit = <<-1>>
    /\ Len(last.prevState) >= 2
    /\ Len(events[last.ev].payload) >= 2
    /\ Len(fileObjects) = 1

C16_WitnessOmitted ==
    /\ LastApplied("addFiles")
    /\ props.filesLimit = <<>>
    /\ Len(last.prevState) >= 2
    /\ Len(events[last.ev].payload) >= 2
    /\ Len(fileObjects) = 4

====
